---- MODULE Spec2Model ----
(***************************************************************************)
(* A model of Sequencing/fastq.py: read-name parsing and standardization,  *)
(* lazy read / pair iteration with structure and encoding detection, and   *)
(* the quality / complexity accumulators; and of the axis ranges of the    *)
(* scatter plot of Sequencing/Visualize/interactive.                       *)
(*                                                                         *)
(* A Python str is a sequence of one-character strings; a raised           *)
(* exception is a result record whose error field names the exception.     *)
(***************************************************************************)
EXTENDS Integers, Sequences, FiniteSets, TLC

VARIABLES
    \* ---- read names (get_read_name_standardizer, get_pair_name) ----
    name_format,      \* which naming convention the two input names follow
    name_fields,      \* the fields the two input names were written from
    read_names,       \* the two raw read names
    standardized,     \* per name: "pending" or the result of standardizing it
    restandardized,   \* per name: "pending" or the result of standardizing
                      \* the standardized name
    pair_names,       \* per name: "pending" or the result of get_pair_name
    \* ---- reads(file_name, standardize_names, ensure_sanger_encoding) ----
    standardize_names,       \* the option
    ensure_sanger_encoding,  \* the option
    src_groups,       \* the 4-line groups of the line source, in order
    line_groups,      \* the line_groups iterator: groups chained in front of
                      \* the source, and how many groups the source has given
    name_standardizer,\* the parser the standardizer was built on, or "identity"
    qual_convertor,   \* "identity" or "solexa_to_sanger"
    reads_pc,         \* "start", "ready", "raised" or "exhausted"
    reads_error,      \* the exception that ended the call or the generator
    requested,        \* Reads the consumer has asked for
    yielded,          \* Reads the consumer has received
    \* ---- read_pairs(R1_file_name, R2_file_name) ----
    R1_source,        \* the 4-line groups of the R1 line source
    R2_source,        \* the 4-line groups of the R2 line source
    R1_next,          \* groups R1_reads has pulled from its source
    R2_next,          \* groups R2_reads has pulled from its source
    pairs_pc,         \* "start", "ready" or "exhausted"
    pairs,            \* the pairs the consumer has received
    \* ---- read_pairs_interleaved(lines) ----
    lines,            \* the 4-line groups of the interleaved line source
    interleaved_pc,   \* "start", "ready" or "exhausted"
    groups_taken,     \* groups the generator has taken from group_by
    interleaved_pairs,\* the pairs the consumer has received
    \* ---- quality_and_complexity(reads, max_read_length) ----
    qc_reads,         \* the Reads passed in
    qc_pc,            \* "start" or "returned"
    qc_result,        \* what the call returned
    \* ---- quality_and_complexity_paired(read_pairs, max_read_length, results) ----
    qcp_read_pairs,   \* the pairs the generator is given
    qcp_pc,           \* "start", "suspended" (at its yield) or "exhausted"
    qcp_taken,        \* pairs the generator has taken from read_pairs
    qcp_arrays,       \* the generator's local arrays
    qcp_yielded,      \* the pairs the consumer has received
    results,          \* the caller's results mapping
    \* ---- solexa_to_sanger(qual) ----
    solexa_qual,      \* the quality string passed in, as ordinals
    sanger_qual,      \* "pending" or the result of the call
    \* ---- scatter(df, log_scale) ----
    df,               \* the numerical columns of the DataFrame, in order
    log_scale,        \* the option
    scatter_pc,       \* "start", "drawn" or "raised"
    initial,          \* the start and end of fig.x_range and fig.y_range
    bounds            \* the bounds of fig.x_range and fig.y_range

names_vars == <<name_format, name_fields, read_names, standardized, restandardized,
                pair_names>>

reads_vars == <<standardize_names, ensure_sanger_encoding, src_groups, line_groups,
                name_standardizer, qual_convertor, reads_pc, reads_error,
                requested, yielded>>

pairs_vars == <<R1_source, R2_source, R1_next, R2_next, pairs_pc, pairs>>

interleaved_vars == <<lines, interleaved_pc, groups_taken, interleaved_pairs>>

qc_vars == <<qc_reads, qc_pc, qc_result>>

qcp_vars == <<qcp_read_pairs, qcp_pc, qcp_taken, qcp_arrays, qcp_yielded, results>>

encoding_vars == <<solexa_qual, sanger_qual>>

scatter_vars == <<df, log_scale, scatter_pc, initial, bounds>>

vars == <<names_vars, reads_vars, pairs_vars, interleaved_vars, qc_vars, qcp_vars,
          encoding_vars, scatter_vars>>

\* What each group of operations leaves alone.
not_names_vars == <<reads_vars, pairs_vars, interleaved_vars, qc_vars, qcp_vars,
    encoding_vars, scatter_vars>>
not_reads_vars == <<names_vars, pairs_vars, interleaved_vars, qc_vars, qcp_vars,
    encoding_vars, scatter_vars>>
not_pairs_vars == <<names_vars, reads_vars, interleaved_vars, qc_vars, qcp_vars,
    encoding_vars, scatter_vars>>
not_interleaved_vars == <<names_vars, reads_vars, pairs_vars, qc_vars, qcp_vars,
    encoding_vars, scatter_vars>>
not_qc_vars == <<names_vars, reads_vars, pairs_vars, interleaved_vars, qcp_vars,
    encoding_vars, scatter_vars>>
not_qcp_vars == <<names_vars, reads_vars, pairs_vars, interleaved_vars, qc_vars,
    encoding_vars, scatter_vars>>
not_encoding_vars == <<names_vars, reads_vars, pairs_vars, interleaved_vars, qc_vars,
    qcp_vars, scatter_vars>>
not_scatter_vars == <<names_vars, reads_vars, pairs_vars, interleaved_vars, qc_vars,
    qcp_vars, encoding_vars>>

\* Extra characters, beyond a field's width, that an input field may carry.
MaxExtra == 1
\* The most 4-line groups a line source holds.
MaxReads == 3
\* The most 4-line groups an interleaved line source holds.
MaxInterleaved == 4
\* The most Reads quality_and_complexity is given.
MaxStatReads == 3
\* The most pairs quality_and_complexity_paired is given.
MaxStatPairs == 2
\* max_read_length, as the callers pass it.
MaxReadLength == 2
\* The longest quality string solexa_to_sanger is given.
MaxQualLength == 2
\* The most rows the DataFrame has.
MaxRows == 2

SOLEXA_OFFSET == 64
MAX_EXPECTED_QUAL == 42
\* imported from fastq_cython
SANGER_OFFSET == 33

-----------------------------------------------------------------------------
(* Python str primitives                                                   *)

Min(a, b) == IF a < b THEN a ELSE b
Max(a, b) == IF a > b THEN a ELSE b

Ok(v) == [error |-> "none", value |-> v]
Raise(e) == [error |-> e, value |-> <<>>]

\* s[:n]
Take(s, n) == SubSeq(s, 1, Min(n, Len(s)))
\* s[n:]
Drop(s, n) == SubSeq(s, Min(n, Len(s)) + 1, Len(s))
\* s[-n:]
LastN(s, n) == SubSeq(s, Max(Len(s) - n, 0) + 1, Len(s))
\* s[:-1]
ButLast(s) == SubSeq(s, 1, Len(s) - 1)

startswith(s, p) == Len(s) >= Len(p) /\ SubSeq(s, 1, Len(p)) = p

\* c in s
contains(s, c) == \E i \in 1..Len(s) : s[i] = c

RECURSIVE split_from(_, _, _, _, _)
split_from(s, sep, i, cur, acc) ==
    IF i > Len(s) THEN Append(acc, cur)
    ELSE IF s[i] = sep THEN split_from(s, sep, i + 1, <<>>, Append(acc, cur))
    ELSE split_from(s, sep, i + 1, Append(cur, s[i]), acc)

\* s.split(sep): empty fields are kept
split(s, sep) == split_from(s, sep, 1, <<>>, <<>>)

\* s.split(): runs of whitespace separate, empty words are dropped
split_ws(s) == SelectSeq(split(s, " "), LAMBDA w : w # <<>>)

RECURSIVE join(_, _)
join(parts, sep) ==
    IF parts = <<>> THEN <<>>
    ELSE IF Len(parts) = 1 THEN parts[1]
    ELSE parts[1] \o <<sep>> \o join(Tail(parts), sep)

Zeros(n) == [i \in 1..n |-> "0"]

\* Keeps the LAST n characters: the truncation a '.ns' precision does not do.
FormatFieldKeepLast(s, n) == Zeros(n - Len(LastN(s, n))) \o LastN(s, n)

\* '{:0>n.ns}'.format(s): precision n keeps the FIRST n characters, then the
\* result is right-aligned in width n with fill '0'.
FormatField(s, n) == Zeros(n - Len(Take(s, n))) \o Take(s, n)

-----------------------------------------------------------------------------
(* Read-name parsing and standardization                                   *)

\* str literals of the source, spelled as character sequences
TEST == <<"t", "e", "s", "t">>
SRR == <<"S", "R", "R">>
ERR == <<"E", "R", "R">>

parse_new_illumina_read_name(read_name) ==
    LET words == split_ws(read_name) IN
    IF Len(words) # 2 THEN Raise("ValueError") ELSE
    LET location == split(words[1], ":")
        member_info == split(words[2], ":") IN
    IF Len(LastN(location, 4)) # 4 \/ Len(member_info) # 4 THEN Raise("ValueError")
    ELSE Ok(LastN(location, 4) \o <<member_info[1], member_info[4]>>)

parse_old_illumina_read_name(read_name) ==
    LET halves == split(read_name, "#") IN
    IF Len(halves) # 2 THEN Raise("ValueError") ELSE
    LET location == split(halves[1], ":")
        member_info == split(halves[2], "/") IN
    IF Len(LastN(location, 4)) # 4 \/ Len(member_info) # 2 THEN Raise("ValueError")
    ELSE Ok(LastN(location, 4) \o <<member_info[2], member_info[1]>>)

parse_unindexed_old_illumina_read_name(read_name) ==
    LET halves == split(read_name, "/") IN
    IF Len(halves) # 2 THEN Raise("ValueError") ELSE
    LET location == split(halves[1], ":") IN
    IF Len(LastN(location, 4)) # 4 THEN Raise("ValueError")
    ELSE Ok(LastN(location, 4) \o <<halves[2], <<>> >>)

parse_standardized_name(read_name) ==
    LET parts == split(read_name, ":") IN
    IF Len(parts) # 5 THEN Raise("ValueError")
    ELSE Ok(parts \o << <<>> >>)

parse_SRA_read_name(read_name) ==
    LET parts == split(read_name, ".") IN
    IF Len(parts) # 2 THEN Raise("ValueError")
    ELSE Ok(<<Drop(parts[1], 3), parts[2]>>)

parse_paired_SRA_read_name(read_name) ==
    LET parts == split(read_name, ".") IN
    IF Len(parts) # 3 THEN Raise("ValueError")
    ELSE Ok(<<Drop(parts[1], 3), parts[2], parts[3]>>)

parse_ERR_read_name(read_name) ==
    LET words == split_ws(read_name) IN
    IF words = <<>> THEN Raise("IndexError") ELSE
    LET parts == split(words[1], ".") IN
    IF Len(parts) # 2 THEN Raise("ValueError")
    ELSE Ok(<<Drop(parts[1], 3), parts[2]>>)

\* A parser is named by a string; "None" is the parser of simulated names.
parser_call(parser, read_name) ==
    CASE parser = "parse_new_illumina_read_name" -> parse_new_illumina_read_name(read_name)
      [] parser = "parse_old_illumina_read_name" -> parse_old_illumina_read_name(read_name)
      [] parser = "parse_unindexed_old_illumina_read_name" ->
             parse_unindexed_old_illumina_read_name(read_name)
      [] parser = "parse_standardized_name" -> parse_standardized_name(read_name)
      [] parser = "parse_SRA_read_name" -> parse_SRA_read_name(read_name)
      [] parser = "parse_paired_SRA_read_name" -> parse_paired_SRA_read_name(read_name)
      [] parser = "parse_ERR_read_name" -> parse_ERR_read_name(read_name)

\* The SRR branch assigns parser only for 2 or 3 dot-fields; with any other
\* count 'return parser' reads an unassigned local.
get_read_name_parser(read_name) ==
    IF startswith(read_name, TEST) THEN Ok("None")
    ELSE IF startswith(read_name, SRR) THEN
        IF Len(split(read_name, ".")) = 2 THEN Ok("parse_SRA_read_name")
        ELSE IF Len(split(read_name, ".")) = 3 THEN Ok("parse_paired_SRA_read_name")
        ELSE Raise("UnboundLocalError")
    ELSE IF startswith(read_name, ERR) THEN Ok("parse_ERR_read_name")
    ELSE LET num_words == Len(split_ws(read_name)) IN
        IF num_words = 2 THEN Ok("parse_new_illumina_read_name")
        ELSE IF num_words = 1 THEN
            IF contains(read_name, "#") THEN Ok("parse_old_illumina_read_name")
            ELSE IF contains(read_name, "/") THEN Ok("parse_unindexed_old_illumina_read_name")
            ELSE Ok("parse_standardized_name")
        ELSE Raise("ValueError")

\* '{0:0>2.2s}:{1:0>5.5s}:{2:0>6.6s}:{3:0>6.6s}'.format: a fifth argument
\* (member) is accepted and not rendered.
_standardize(lane, tile, x, y, member) ==
    join(<<FormatField(lane, 2), FormatField(tile, 5),
           FormatField(x, 6), FormatField(y, 6)>>, ":")

_standardize_SRA(accession, number) ==
    join(<<FormatField(accession, 9), FormatField(number, 10)>>, ":")

_standardize_paired_SRA(accession, number, member) ==
    join(<<FormatField(accession, 9), FormatField(number, 10),
           FormatField(member, 1)>>, ":")

\* The body of a standardizer closure once its parser has returned parsed.
render(parser, parsed) ==
    IF parsed.error # "none" THEN parsed
    ELSE IF parser \in {"parse_SRA_read_name", "parse_ERR_read_name"}
        THEN Ok(_standardize_SRA(parsed.value[1], parsed.value[2]))
    ELSE IF parser = "parse_paired_SRA_read_name"
        THEN Ok(_standardize_paired_SRA(parsed.value[1], parsed.value[2],
                                        parsed.value[3]))
    ELSE Ok(_standardize(parsed.value[1], parsed.value[2], parsed.value[3],
                         parsed.value[4], parsed.value[5]))

\* The closure get_read_name_standardizer returns, applied to read_name;
\* parser is the parser the closure captured ("None": identity).
standardizer(parser, read_name) ==
    IF parser = "None" THEN Ok(read_name)
    ELSE render(parser, parser_call(parser, read_name))

\* The parser the returned standardizer is built on, or the exception.
get_read_name_standardizer(read_name) == get_read_name_parser(read_name)

\* get_read_name_standardizer(read_name)(read_name)
apply_chosen(chosen, read_name) ==
    IF chosen.error # "none" THEN chosen
    ELSE standardizer(chosen.value, read_name)

standardize_name(read_name) ==
    apply_chosen(get_read_name_standardizer(read_name), read_name)

coordinates_from_standardized(name) == ButLast(split(name, ":"))

get_pair_name(name) == join(coordinates_from_standardized(name), ":")

-----------------------------------------------------------------------------
(* Read names: the inputs and the two operations on them                   *)

IlluminaFormats ==
    {"new_illumina", "old_illumina", "unindexed_old_illumina", "standardized"}
SRAFormats == {"SRA", "paired_SRA", "ERR"}
RejectedFormats == {"SRR_other", "three_words"}
NameFormats == IlluminaFormats \cup SRAFormats \cup RejectedFormats \cup {"simulated"}

Digits == <<"1", "2", "3", "4", "5", "6", "7", "8", "9", "1", "2", "3", "4">>
OtherDigits == <<"9", "8", "7", "6", "5", "4", "3", "2", "1", "9", "8", "7", "6">>

\* The lengths tried for a field of width w: one character (padded), exactly
\* w, and up to MaxExtra characters too many (truncated).
FieldLengths(w) == {1} \cup (w .. (w + MaxExtra))
FieldValues(w) == {Take(Digits, n) : n \in FieldLengths(w)}

\* The fields of the name "INST:1:FC:1:10:100:200 1:N:0:ATCG"
ExampleFields == << <<"1">>, <<"1", "0">>, <<"1", "0", "0">>, <<"2", "0", "0">>, <<"1">> >>

IlluminaFields ==
    {<<lane, tile, x, y, member>> :
        lane \in FieldValues(2), tile \in FieldValues(5), x \in FieldValues(6),
        y \in FieldValues(6), member \in {<<"1">>, <<"2">>}}
    \cup {ExampleFields}

SRAFields ==
    {<<accession, number, member>> :
        accession \in FieldValues(9), number \in FieldValues(10),
        member \in {<<"1">>, <<"2">>}}

\* A second read next to fields f: its mate, or a read one coordinate away.
Mate(f) == [f EXCEPT ![Len(f)] = IF f[Len(f)] = <<"1">> THEN <<"2">> ELSE <<"1">>]
Neighbours(f) ==
    {Mate(f)} \cup {[f EXCEPT ![k] = Take(OtherDigits, Len(f[k]))] : k \in 1..(Len(f) - 1)}

\* The read name of the given convention written from fields f.
WriteName(format, f) ==
    LET location == join(SubSeq(f, 1, 4), ":") IN
    CASE format = "new_illumina" ->
             <<"I", "N", "S", "T", ":", "1", ":", "F", "C", ":">> \o location
             \o <<" ">> \o f[5] \o <<":", "N", ":", "0", ":", "A", "T", "C", "G">>
      [] format = "old_illumina" ->
             <<"H", "W", "I", ":">> \o location \o <<"#", "A", "T", "C", "G", "/">> \o f[5]
      [] format = "unindexed_old_illumina" ->
             <<"H", "W", "I", ":">> \o location \o <<"/">> \o f[5]
      [] format = "standardized" -> join(f, ":")
      [] format = "SRA" -> SRR \o f[1] \o <<".">> \o f[2]
      [] format = "paired_SRA" -> SRR \o f[1] \o <<".">> \o f[2] \o <<".">> \o f[3]
      [] format = "ERR" -> ERR \o f[1] \o <<".">> \o f[2] \o <<" ">> \o f[3]
      [] format = "SRR_other" ->
             SRR \o f[1] \o <<".">> \o f[2] \o <<".">> \o f[3] \o <<".">> \o f[3]
      [] format = "three_words" -> f[1] \o <<" ">> \o f[2] \o <<" ">> \o f[3]
      [] format = "simulated" -> TEST \o <<"_">> \o f[1] \o <<":">> \o f[2]

Pending == [error |-> "pending", value |-> <<>>]

\* No read names are being standardized.
IdleNames ==
    /\ name_format = "none"
    /\ name_fields = <<>>
    /\ read_names = <<>>
    /\ standardized = <<>>
    /\ restandardized = <<>>
    /\ pair_names = <<>>

\* No reads() call is under way.
IdleReads ==
    /\ standardize_names = FALSE
    /\ ensure_sanger_encoding = FALSE
    /\ src_groups = <<>>
    /\ line_groups = [buffered |-> <<>>, pos |-> 0]
    /\ name_standardizer = "identity"
    /\ qual_convertor = "identity"
    /\ reads_pc = "idle"
    /\ reads_error = "none"
    /\ requested = 0
    /\ yielded = <<>>

\* No read_pairs call is under way.
IdlePairs ==
    /\ R1_source = <<>>
    /\ R2_source = <<>>
    /\ R1_next = 0
    /\ R2_next = 0
    /\ pairs_pc = "idle"
    /\ pairs = <<>>

\* No read_pairs_interleaved call is under way.
IdleInterleaved ==
    /\ lines = <<>>
    /\ interleaved_pc = "idle"
    /\ groups_taken = 0
    /\ interleaved_pairs = <<>>

\* No statistics are being gathered.
IdleStats ==
    /\ qc_reads = <<>>
    /\ qc_pc = "idle"
    /\ qc_result = <<>>
    /\ qcp_read_pairs = <<>>
    /\ qcp_pc = "idle"
    /\ qcp_taken = 0
    /\ qcp_arrays = <<>>
    /\ qcp_yielded = <<>>
    /\ results = <<>>

\* No quality string is being converted.
IdleEncoding ==
    /\ solexa_qual = <<>>
    /\ sanger_qual = [error |-> "idle", value |-> <<>>]

\* No scatter plot is being made.
IdleScatter ==
    /\ df = <<>>
    /\ log_scale = FALSE
    /\ scatter_pc = "idle"
    /\ initial = <<>>
    /\ bounds = <<>>

InitNames ==
    /\ IdleEncoding
    /\ IdleScatter
    /\ IdleReads
    /\ IdlePairs
    /\ IdleInterleaved
    /\ IdleStats
    /\ name_format \in NameFormats
    /\ \E f \in (IF name_format \in IlluminaFormats THEN IlluminaFields ELSE SRAFields) :
       \E g \in Neighbours(f) :
          /\ name_fields = <<f, g>>
          /\ read_names = <<WriteName(name_format, f), WriteName(name_format, g)>>
    /\ standardized = <<Pending, Pending>>
    /\ restandardized = <<Pending, Pending>>
    /\ pair_names = <<Pending, Pending>>

\* name = get_read_name_standardizer(name)(name), for the i-th name
Standardize(i) ==
    /\ standardized[i] = Pending
    /\ standardized' = [standardized EXCEPT ![i] = standardize_name(read_names[i])]
    /\ UNCHANGED <<name_format, name_fields, read_names, restandardized, pair_names,
                   not_names_vars>>

\* name = get_read_name_standardizer(name)(name) once more, on the i-th
\* standardized name
StandardizeAgain(i) ==
    /\ standardized[i].error = "none"
    /\ restandardized[i] = Pending
    /\ restandardized' = [restandardized EXCEPT
                             ![i] = standardize_name(standardized[i].value)]
    /\ UNCHANGED <<name_format, name_fields, read_names, standardized, pair_names,
                   not_names_vars>>

\* get_pair_name(name) on the i-th standardized name
PairName(i) ==
    /\ standardized[i].error = "none"
    /\ pair_names[i] = Pending
    /\ pair_names' = [pair_names EXCEPT ![i] = Ok(get_pair_name(standardized[i].value))]
    /\ UNCHANGED <<name_format, name_fields, read_names, standardized, restandardized,
                   not_names_vars>>

StandardizeAny == \E i \in 1..2 : Standardize(i)
StandardizeAgainAny == \E i \in 1..2 : StandardizeAgain(i)
PairNameAny == \E i \in 1..2 : PairName(i)

NextNames == StandardizeAny \/ StandardizeAgainAny \/ PairNameAny

SpecNames == InitNames /\ [][NextNames]_vars

-----------------------------------------------------------------------------
(* Claims about read names, checked under SpecNames                        *)

\* "INST:1:FC:1:10:100:200 1:N:0:ATCG"
ExampleName ==
    <<"I", "N", "S", "T", ":", "1", ":", "F", "C", ":", "1", ":", "1", "0", ":",
      "1", "0", "0", ":", "2", "0", "0", " ", "1", ":", "N", ":", "0", ":",
      "A", "T", "C", "G">>

\* "01:00010:000100:000200:1"
ExampleStandardized ==
    <<"0", "1", ":", "0", "0", "0", "1", "0", ":", "0", "0", "0", "1", "0", "0", ":",
      "0", "0", "0", "2", "0", "0", ":", "1">>

\* The widths of the fields a standardized name of this convention holds.
RenderedWidths ==
    IF name_format \in IlluminaFormats THEN <<2, 5, 6, 6>>
    ELSE IF name_format = "paired_SRA" THEN <<9, 10, 1>>
    ELSE <<9, 10>>

\* C2: every Illumina-derived name standardizes to the five colon-joined
\* fields lane(2):tile(5):x(6):y(6):member(1), and the name
\* "INST:1:FC:1:10:100:200 1:N:0:ATCG" to "01:00010:000100:000200:1".
C2_IlluminaFiveFields ==
    \A i \in 1..2 :
        (name_format \in IlluminaFormats /\ standardized[i] # Pending) =>
            /\ standardized[i].error = "none"
            /\ LET out == split(standardized[i].value, ":") IN
                /\ Len(out) = 5
                /\ <<Len(out[1]), Len(out[2]), Len(out[3]), Len(out[4]), Len(out[5])>>
                       = <<2, 5, 6, 6, 1>>
            /\ (read_names[i] = ExampleName =>
                    standardized[i].value = ExampleStandardized)

\* The fields of every standardized name have their fixed widths: a shorter
\* extracted field is left-padded with '0', a longer one is cut to the
\* characters Keep selects.
C3_FieldsAre(Keep(_, _)) ==
    \A i \in 1..2 :
        (name_format \in (IlluminaFormats \cup SRAFormats) /\ standardized[i] # Pending) =>
            /\ standardized[i].error = "none"
            /\ LET out == split(standardized[i].value, ":")
                   f == name_fields[i]
                   w == RenderedWidths IN
                /\ Len(out) = Len(w)
                /\ \A k \in 1..Len(w) :
                    /\ Len(out[k]) = w[k]
                    /\ Len(f[k]) <= w[k] => out[k] = Zeros(w[k] - Len(f[k])) \o f[k]
                    /\ Len(f[k]) > w[k] => out[k] = Keep(f[k], w[k])

\* C3 (as amended): every field of a standardized name has exactly its width
\* n; a shorter extracted field is left-padded with '0' to n characters and a
\* longer one is truncated to its FIRST n characters.
C3_PaddedOrFirstN == C3_FieldsAre(Take)

\* C3 (as claimed): ... a longer field is truncated to its LAST n characters.
C3_PaddedOrLastN == C3_FieldsAre(LastN)

\* A name with one field too long and another too short has been standardized.
C3_Witness ==
    \E i \in 1..2 :
        /\ name_format \in (IlluminaFormats \cup SRAFormats)
        /\ standardized[i].error = "none"
        /\ \E k \in 1..Len(RenderedWidths) : Len(name_fields[i][k]) > RenderedWidths[k]
        /\ \E k \in 1..Len(RenderedWidths) : Len(name_fields[i][k]) < RenderedWidths[k]

\* C4: the pair names of two Illumina reads agree when the reads are mates,
\* are the four coordinate fields lane:tile:x:y (which is what
\* coordinates_from_standardized returns), and differ when the reads differ
\* in a coordinate whose values fit the field widths.
C4_PairNameIsCoordinates ==
    (/\ name_format \in IlluminaFormats
     /\ pair_names[1] # Pending
     /\ pair_names[2] # Pending) =>
        LET f == name_fields[1]
            g == name_fields[2]
            w == RenderedWidths IN
        /\ SubSeq(f, 1, 4) = SubSeq(g, 1, 4) => pair_names[1] = pair_names[2]
        /\ Len(split(pair_names[1].value, ":")) = 4
        /\ coordinates_from_standardized(standardized[1].value)
               = split(pair_names[1].value, ":")
        /\ (/\ SubSeq(f, 1, 4) # SubSeq(g, 1, 4)
            /\ \A k \in 1..4 : Len(f[k]) <= w[k] /\ Len(g[k]) <= w[k])
               => pair_names[1] # pair_names[2]

\* C5: choosing a parser for an SRR name with 4 dot-fields fails with the
\* same 'read name format not recognized' ValueError as a name of 3 words.
C5_SRROtherIsNotRecognized ==
    \A i \in 1..2 :
        (name_format \in RejectedFormats /\ standardized[i] # Pending) =>
            standardized[i].error = "ValueError"

\* C15: the standardized form of a recognized Illumina name is itself taken
\* by get_read_name_parser for an already-standardized name (one word, no
\* '#', no '/', five colon-fields), and standardizing it again returns it
\* unchanged, without an error.
C15_StandardizingAgainChangesNothing ==
    \A i \in 1..2 :
        (name_format \in IlluminaFormats /\ restandardized[i] # Pending) =>
            /\ get_read_name_parser(standardized[i].value) = Ok("parse_standardized_name")
            /\ Len(split(standardized[i].value, ":")) = 5
            /\ restandardized[i] = standardized[i]

-----------------------------------------------------------------------------
(* Quality encodings                                                       *)

\* The table without the floor at zero: chr(q + SANGER_OFFSET).
unclamped_table ==
    [c \in 33 .. (SOLEXA_OFFSET + MAX_EXPECTED_QUAL) |->
        (c - SOLEXA_OFFSET) + SANGER_OFFSET]

\* {chr(q + SOLEXA_OFFSET): chr(max(q, 0) + SANGER_OFFSET)} for q from
\* ord('!') - SOLEXA_OFFSET to MAX_EXPECTED_QUAL; characters are ordinals.
_solexa_to_sanger_table ==
    [c \in 33 .. (SOLEXA_OFFSET + MAX_EXPECTED_QUAL) |->
        Max(c - SOLEXA_OFFSET, 0) + SANGER_OFFSET]

\* A character outside the table is a KeyError.
solexa_to_sanger(qual) ==
    IF \E i \in 1..Len(qual) : qual[i] \notin DOMAIN _solexa_to_sanger_table
    THEN Raise("KeyError")
    ELSE Ok([i \in 1..Len(qual) |-> _solexa_to_sanger_table[qual[i]]])

\* The characters of the strings solexa_to_sanger is given: every character
\* of the table, and the one after the last.
SolexaChars == 33 .. (SOLEXA_OFFSET + MAX_EXPECTED_QUAL + 1)

InitEncoding ==
    /\ IdleNames
    /\ IdleReads
    /\ IdlePairs
    /\ IdleInterleaved
    /\ IdleStats
    /\ IdleScatter
    /\ solexa_qual \in UNION {[1..n -> SolexaChars] : n \in 0..MaxQualLength}
    /\ sanger_qual = Pending

\* solexa_to_sanger(qual)
SolexaToSanger ==
    /\ sanger_qual = Pending
    /\ sanger_qual' = solexa_to_sanger(solexa_qual)
    /\ UNCHANGED <<solexa_qual, not_encoding_vars>>

NextEncoding == SolexaToSanger

SpecEncoding == InitEncoding /\ [][NextEncoding]_vars

\* The value a Solexa character encodes, and the one a Sanger character does.
SolexaValue(c) == c - SOLEXA_OFFSET
SangerValue(c) == c - SANGER_OFFSET

\* C12: solexa_to_sanger maps every Solexa character from '!' through
\* chr(SOLEXA_OFFSET + MAX_EXPECTED_QUAL): a character whose value is below 0
\* (the lowest, '!', among them) to the Sanger '!' of value 0, a character of
\* value q >= 0 to the Sanger character of the same value; the output is as
\* long as the input.
C12_ClampedSameValue ==
    (/\ sanger_qual # Pending
     /\ \A i \in DOMAIN solexa_qual :
           solexa_qual[i] \in 33 .. (SOLEXA_OFFSET + MAX_EXPECTED_QUAL)) =>
        /\ sanger_qual.error = "none"
        /\ Len(sanger_qual.value) = Len(solexa_qual)
        /\ \A i \in DOMAIN solexa_qual :
              IF SolexaValue(solexa_qual[i]) < 0
              THEN sanger_qual.value[i] = 33
              ELSE SangerValue(sanger_qual.value[i]) = SolexaValue(solexa_qual[i])

\* '!h' (values -31 and 40) has become '!I' (values 0 and 40).
C12_Witness ==
    /\ solexa_qual = <<33, 104>>
    /\ sanger_qual = Ok(<<33, 73>>)

-----------------------------------------------------------------------------
(* reads(): line groups, detection, and the generator of Reads             *)

\* The whitespace str.strip() removes: as characters (name and sequence
\* lines) and as ordinals (quality lines).
Whitespace == {" ", "\n", "\t", "\r"}
WhitespaceOrds == {9, 10, 11, 12, 13, 32}

RECURSIVE rstrip(_, _)
rstrip(s, chars) ==
    IF s # <<>> /\ s[Len(s)] \in chars THEN rstrip(ButLast(s), chars) ELSE s

RECURSIVE lstrip(_, _)
lstrip(s, chars) ==
    IF s # <<>> /\ s[1] \in chars THEN lstrip(Tail(s), chars) ELSE s

strip(s, chars) == lstrip(rstrip(s, chars), chars)

\* str.translate(period_to_N)
translate_period_to_N(s) == [i \in 1..Len(s) |-> IF s[i] = "." THEN "N" ELSE s[i]]

\* A qual_convertor, named by a string, applied to a quality string.
convert_qual(qual_convertor_, qual) ==
    IF qual_convertor_ = "solexa_to_sanger" THEN solexa_to_sanger(qual) ELSE Ok(qual)

\* A name_standardizer, named by the parser it captured, applied to a name.
standardize_with(name_standardizer_, name) ==
    IF name_standardizer_ = "identity" THEN Ok(name)
    ELSE standardizer(name_standardizer_, name)

\* Read(name, seq, qual), unless computing name or qual raised
Read(name, seq, qual) ==
    IF name.error # "none" THEN name
    ELSE IF qual.error # "none" THEN qual
    ELSE Ok([name |-> name.value, seq |-> seq, qual |-> qual.value])

line_group_to_read(line_group, name_standardizer_, qual_convertor_) ==
    Read(standardize_with(name_standardizer_,
                          lstrip(rstrip(line_group.name_line, Whitespace), {"@"})),
         translate_period_to_N(strip(line_group.seq_line, Whitespace)),
         convert_qual(qual_convertor_, strip(line_group.qual_line, WhitespaceOrds)))

\* The iterator izip(*[lines]*4), possibly behind chain(): no group is left.
exhausted(it) == it.buffered = <<>> /\ it.pos >= Len(src_groups)

\* it.next(): the group, and the iterator afterwards
next_group(it) ==
    IF it.buffered # <<>>
    THEN [group |-> Head(it.buffered), it |-> [it EXCEPT !.buffered = Tail(@)]]
    ELSE [group |-> src_groups[it.pos + 1], it |-> [it EXCEPT !.pos = @ + 1]]

\* A chain that forgets the groups put in front.
chain_dropping(groups, it) == it

\* chain(groups, it)
chain(groups, it) == [it EXCEPT !.buffered = groups \o @]

\* Lines the line source has handed out so far.
lines_pulled == 4 * line_groups.pos

SequenceMin(q) == CHOOSE m \in {q[i] : i \in 1..Len(q)} : \A i \in 1..Len(q) : m <= q[i]
SequenceMax(q) == CHOOSE m \in {q[i] : i \in 1..Len(q)} : \A i \in 1..Len(q) : m >= q[i]

\* The end of detect_structure's try block: first is line_groups.next() and
\* chosen what get_read_name_standardizer(first_read.name) returned or raised.
structure_of(first, chosen) ==
    IF chosen.error # "none"
    THEN [error |-> chosen.error, name_standardizer |-> "identity", it |-> first.it]
    ELSE [error |-> "none", name_standardizer |-> chosen.value,
          it |-> chain(<<first.group>>, first.it)]

first_read_name(first) ==
    line_group_to_read(first.group, "identity", "identity").value.name

detect_structure(it) ==
    IF exhausted(it)
    THEN [error |-> "none", name_standardizer |-> "identity", it |-> it]
    ELSE structure_of(next_group(it),
                      get_read_name_standardizer(first_read_name(next_group(it))))

\* The for loop of detect_encoding from the state (it, groups_examined) on,
\* and the statements after it. A for loop that runs out of groups ends
\* normally: no StopIteration reaches the except clause, and 'encoding' is
\* read unassigned.
RECURSIVE examine_groups(_, _)

\* The loop body without the break of the 'SANGER' branch: the scan goes on
\* past a read that decides Sanger.
examine_without_sanger_break(it, groups_examined, ords) ==
    IF ords = <<>>
    THEN [error |-> "ValueError", qual_convertor |-> "identity", it |-> it]
    ELSE IF SequenceMin(ords) >= SOLEXA_OFFSET - 5 /\ SequenceMax(ords) > SANGER_OFFSET + 41
    THEN [error |-> "none", qual_convertor |-> "solexa_to_sanger",
          it |-> chain(groups_examined, it)]
    ELSE IF exhausted(it) /\ SequenceMin(ords) < SOLEXA_OFFSET - 5
    THEN [error |-> "none", qual_convertor |-> "identity",
          it |-> chain(groups_examined, it)]
    ELSE examine_groups(it, groups_examined)

\* The loop body with its two tests in the other order: 'SOLEXA' first.
examine_solexa_first(it, groups_examined, ords) ==
    IF ords = <<>>
    THEN [error |-> "ValueError", qual_convertor |-> "identity", it |-> it]
    ELSE IF SequenceMax(ords) > SANGER_OFFSET + 41
    THEN [error |-> "none", qual_convertor |-> "solexa_to_sanger",
          it |-> chain(groups_examined, it)]
    ELSE IF SequenceMin(ords) < SOLEXA_OFFSET - 5
    THEN [error |-> "none", qual_convertor |-> "identity",
          it |-> chain(groups_examined, it)]
    ELSE examine_groups(it, groups_examined)

\* One pass of the loop body: the group has been appended to groups_examined,
\* ords are the ordinals of its quality string, it the iterator behind it.
examine(it, groups_examined, ords) ==
    IF ords = <<>>
    THEN [error |-> "ValueError", qual_convertor |-> "identity", it |-> it]
    ELSE IF SequenceMin(ords) < SOLEXA_OFFSET - 5
    THEN [error |-> "none", qual_convertor |-> "identity",
          it |-> chain(groups_examined, it)]
    ELSE IF SequenceMax(ords) > SANGER_OFFSET + 41
    THEN [error |-> "none", qual_convertor |-> "solexa_to_sanger",
          it |-> chain(groups_examined, it)]
    ELSE examine_groups(it, groups_examined)

qual_ords(line_group) ==
    line_group_to_read(line_group, "identity", "identity").value.qual

examine_groups(it, groups_examined) ==
    IF exhausted(it)
    THEN [error |-> "UnboundLocalError", qual_convertor |-> "identity", it |-> it]
    ELSE examine(next_group(it).it,
                 Append(groups_examined, next_group(it).group),
                 qual_ords(next_group(it).group))

detect_encoding(it) == examine_groups(it, <<>>)

\* The read names and quality strings the sources are written from. The
\* quality strings sit on the detection thresholds: 59 with 74 decides
\* nothing, 59 with 75 decides Solexa, and 58 with 75 passes both tests.
SourceNames ==
    {ExampleName, <<"S", "R", "R", "1", ".", "2">>, <<"S", "R", "R", "1", ".", "3">>,
     <<"t", "e", "s", "t", "1">>}
SourceQuals == {<<59, 74>>, <<59, 75>>, <<58, 75>>}

\* The 4 lines of a FASTQ record ('+' line left out: it is never read). A
\* source holds whole records, so izip(*[lines]*4) never drops a partial one.
LineGroup(name, qual) ==
    [name_line |-> <<"@">> \o name \o <<"\n">>,
     seq_line |-> <<"A", ".", "\n">>,
     qual_line |-> qual \o <<10>>]

SourceGroups == {LineGroup(name, qual) : name \in SourceNames, qual \in SourceQuals}

Sources == UNION {[1..n -> SourceGroups] : n \in 0..MaxReads}

InitReads ==
    /\ IdleEncoding
    /\ IdleScatter
    /\ IdleNames
    /\ IdlePairs
    /\ IdleInterleaved
    /\ IdleStats
    /\ standardize_names \in BOOLEAN
    /\ ensure_sanger_encoding \in BOOLEAN
    /\ src_groups \in Sources
    /\ line_groups = [buffered |-> <<>>, pos |-> 0]
    /\ name_standardizer = "identity"
    /\ qual_convertor = "identity"
    /\ reads_pc = "start"
    /\ reads_error = "none"
    /\ requested = 0
    /\ yielded = <<>>

\* reads(file_name, standardize_names, ensure_sanger_encoding): the call,
\* which runs both detections before it returns the generator.
reads_structure(it) ==
    IF standardize_names THEN detect_structure(it)
    ELSE [error |-> "none", name_standardizer |-> "identity", it |-> it]

reads_encoding(structure) ==
    IF structure.error = "none" /\ ensure_sanger_encoding
    THEN detect_encoding(structure.it)
    ELSE [error |-> structure.error, qual_convertor |-> "identity", it |-> structure.it]

CallReads ==
    /\ reads_pc = "start"
    /\ \E structure \in {reads_structure(line_groups)} :
       \E encoding \in {reads_encoding(structure)} :
          /\ name_standardizer' = structure.name_standardizer
          /\ qual_convertor' = encoding.qual_convertor
          /\ line_groups' = encoding.it
          /\ reads_error' = encoding.error
          /\ reads_pc' = IF encoding.error = "none" THEN "ready" ELSE "raised"
    /\ UNCHANGED <<standardize_names, ensure_sanger_encoding, src_groups,
                   requested, yielded, not_reads_vars>>

\* The consumer asks the generator for the next Read.
NextRead ==
    /\ reads_pc = "ready"
    /\ requested' = requested + 1
    /\ IF exhausted(line_groups)
       THEN /\ reads_pc' = "exhausted"
            /\ UNCHANGED <<line_groups, reads_error, yielded>>
       ELSE \E read \in {line_group_to_read(next_group(line_groups).group,
                                              name_standardizer, qual_convertor)} :
            /\ line_groups' = next_group(line_groups).it
            /\ reads_error' = read.error
            /\ reads_pc' = IF read.error = "none" THEN "ready" ELSE "raised"
            /\ yielded' = IF read.error = "none" THEN Append(yielded, read.value)
                          ELSE yielded
    /\ UNCHANGED <<standardize_names, ensure_sanger_encoding, src_groups,
                   name_standardizer, qual_convertor, not_reads_vars>>

NextReads == CallReads \/ NextRead

SpecReads == InitReads /\ [][NextReads]_vars

-----------------------------------------------------------------------------
(* Claims about reads(), checked under SpecReads                           *)

\* The quality string of the k-th record of the source, as written.
SourceQual(k) == ButLast(src_groups[k].qual_line)

\* A read decides the encoding: its smallest ordinal is below 59 or its
\* largest above 74.
Decisive(qual) ==
    \/ \E i \in 1..Len(qual) : qual[i] < 59
    \/ \E i \in 1..Len(qual) : qual[i] > 74

\* C6: with ensure_sanger_encoding set and no decisive read in the whole
\* stream (or an empty stream), detection ends without an error, no
\* conversion is chosen, and every read is yielded with its quality unchanged.
C6_UndecidedAssumesSanger ==
    (/\ reads_pc \in {"ready", "raised", "exhausted"}
     /\ ensure_sanger_encoding
     /\ ~standardize_names
     /\ \A k \in 1..Len(src_groups) : ~Decisive(SourceQual(k))) =>
        /\ reads_error = "none"
        /\ qual_convertor = "identity"
        /\ \A k \in 1..Len(yielded) : yielded[k].qual = SourceQual(k)
        /\ reads_pc = "exhausted" => Len(yielded) = Len(src_groups)

\* Groups the two detections examine, read off the source and the options:
\* the first group for standardize_names; for ensure_sanger_encoding every
\* group up to and including the first decisive one, or all of them.
StructureGroups == IF standardize_names THEN Min(1, Len(src_groups)) ELSE 0
EncodingGroups ==
    IF ~ensure_sanger_encoding THEN 0
    ELSE IF \E k \in 1..Len(src_groups) : Decisive(SourceQual(k))
    THEN CHOOSE k \in 1..Len(src_groups) :
             /\ Decisive(SourceQual(k))
             /\ \A j \in 1..(k - 1) : ~Decisive(SourceQual(j))
    ELSE Len(src_groups)
DetectionGroups ==
    IF reads_pc = "start" THEN 0 ELSE Max(StructureGroups, EncodingGroups)

\* C7 (as claimed): no line is pulled from the source before the consumer
\* asks for the first Read, and never more than the Reads asked for need.
C7_PullsOnlyOnRequest ==
    reads_pc \in {"start", "ready", "exhausted"} =>
        lines_pulled <= 4 * requested

\* C7 (as amended): the call to reads itself pulls the groups detection
\* examines (none with both options off), exactly those when it returns;
\* from then on lines are pulled only on request, so the lines pulled never
\* exceed 4 * max(Reads requested, groups detection examines).
C7_PullsDetectionPrefixThenOnRequest ==
    reads_pc \in {"start", "ready", "raised", "exhausted"} =>
        /\ lines_pulled <= 4 * Max(requested, DetectionGroups)
        /\ (reads_pc = "ready" /\ requested = 0) => lines_pulled = 4 * DetectionGroups
        /\ (~standardize_names /\ ~ensure_sanger_encoding) => lines_pulled <= 4 * requested

\* reads has returned after pulling two groups, and no Read was asked for.
C7_Witness ==
    /\ reads_pc = "ready"
    /\ ensure_sanger_encoding
    /\ requested = 0
    /\ lines_pulled = 8
    /\ Len(src_groups) > 2

\* The records of the source that hold a decisive read, and the first of them.
DecisiveIndexes == {k \in DOMAIN src_groups : Decisive(SourceQual(k))}
FirstDecisive == CHOOSE k \in DecisiveIndexes : \A j \in DecisiveIndexes : k <= j

\* A read whose smallest ordinal is below 59.
DecidesSanger(qual) == \E i \in 1..Len(qual) : qual[i] < 59

\* reads() has returned its generator: both detections ran to their end.
DetectionRan ==
    \/ reads_pc \in {"ready", "exhausted"}
    \/ reads_pc = "raised" /\ requested > 0

\* A quality string re-encoded character by character, a value below 0
\* raised to 0.
Reencoded(qual) == [i \in 1..Len(qual) |-> Max(qual[i] - 64, 0) + 33]

\* C13: with ensure_sanger_encoding set, the first decisive read in stream
\* order fixes the encoding for good: Sanger if its smallest ordinal is below
\* 59 (whatever its largest), Solexa otherwise; and once Solexa is decided
\* every Read yielded, the undecisive ones examined before the decisive one
\* included, carries its quality string converted by solexa_to_sanger.
C13_FirstDecisiveReadFixesEncoding ==
    (ensure_sanger_encoding /\ DetectionRan /\ DecisiveIndexes # {}) =>
        /\ qual_convertor = IF DecidesSanger(SourceQual(FirstDecisive))
                            THEN "identity" ELSE "solexa_to_sanger"
        /\ \A k \in DOMAIN yielded :
              yielded[k].qual = IF qual_convertor = "solexa_to_sanger"
                                THEN Reencoded(SourceQual(k))
                                ELSE SourceQual(k)

\* Solexa was decided by the second read, after an undecisive first one, and
\* three Reads have been yielded converted: the undecisive one, the decisive
\* one and a later one that passes the Sanger test.
C13_Witness ==
    /\ ensure_sanger_encoding
    /\ qual_convertor = "solexa_to_sanger"
    /\ Len(yielded) = 3
    /\ SourceQual(1) = <<59, 74>> /\ yielded[1].qual = <<33, 43>>
    /\ SourceQual(2) = <<59, 75>> /\ yielded[2].qual = <<33, 44>>
    /\ DecidesSanger(SourceQual(3)) /\ yielded[3].qual[1] = 33

\* The read name of the k-th record of the source, as written.
SourceName(k) == lstrip(rstrip(src_groups[k].name_line, Whitespace), {"@"})

\* The stream C14 is about: at least one record, the first read's name
\* recognized, a decisive read somewhere, and one of the two options set.
RecognizedAndDecisive ==
    /\ standardize_names \/ ensure_sanger_encoding
    /\ src_groups # <<>>
    /\ get_read_name_parser(SourceName(1)).error = "none"
    /\ DecisiveIndexes # {}

\* The name rule reads() applies: the one chosen from the first read's name.
RuleOfFirst ==
    IF standardize_names THEN get_read_name_standardizer(SourceName(1)).value
    ELSE "identity"

\* Every read name of the stream can be parsed by the rule of the first.
RuleFitsEveryName ==
    \A k \in DOMAIN src_groups : standardize_with(RuleOfFirst, SourceName(k)).error = "none"

\* The Reads yielded so far are the first records of the source, in order,
\* one Read per record, each named by the rule of the first read; the
\* generator has not failed, and once it is exhausted there is a Read for
\* every record.
YieldedAreTheSource ==
    /\ reads_pc \in {"start", "ready", "exhausted"}
    /\ name_standardizer = IF reads_pc = "start" THEN "identity" ELSE RuleOfFirst
    /\ Len(yielded) <= Len(src_groups)
    /\ \A k \in DOMAIN yielded :
          /\ Ok(yielded[k].name) = standardize_with(RuleOfFirst, SourceName(k))
          /\ yielded[k].seq = <<"A", "N">>
          /\ yielded[k].qual \in {SourceQual(k), Reencoded(SourceQual(k))}
    /\ reads_pc = "exhausted" => Len(yielded) = Len(src_groups)

-----------------------------------------------------------------------------
(* read_pairs and read_pairs_interleaved (called without options)          *)

\* Already-standardized names: both mates at one coordinate, a read at
\* another, and a simulated name.
MateNames ==
    {ExampleStandardized,
     ButLast(ExampleStandardized) \o <<"2">>,
     SubSeq(ExampleStandardized, 1, 21) \o <<"1", ":", "1">>}
InterleavedNames == MateNames \cup {<<"t", "e", "s", "t", "1">>}

\* reads(source): the Read the generator makes of a group, no option set
plain_read(line_group) == line_group_to_read(line_group, "identity", "identity").value

InitPairs ==
    /\ IdleEncoding
    /\ IdleScatter
    /\ IdleNames
    /\ IdleReads
    /\ IdleInterleaved
    /\ IdleStats
    /\ R1_source \in UNION {[1..n -> {LineGroup(name, <<59, 74>>) : name \in MateNames}] :
                               n \in 0..MaxReads}
    /\ R2_source \in UNION {[1..n -> {LineGroup(name, <<58, 75>>) : name \in MateNames}] :
                               n \in 0..MaxReads}
    /\ R1_next = 0
    /\ R2_next = 0
    /\ pairs_pc = "start"
    /\ pairs = <<>>

\* read_pairs(R1_file_name, R2_file_name): two generators and an izip; no
\* option is set, so nothing is read yet.
CallReadPairs ==
    /\ pairs_pc = "start"
    /\ pairs_pc' = "ready"
    /\ UNCHANGED <<R1_source, R2_source, R1_next, R2_next, pairs, not_pairs_vars>>

\* izip_longest in place of izip: goes on until both sources are used up.
NextPairLongest ==
    /\ pairs_pc = "ready"
    /\ IF R1_next >= Len(R1_source) /\ R2_next >= Len(R2_source)
       THEN /\ pairs_pc' = "exhausted"
            /\ UNCHANGED <<R1_next, R2_next, pairs>>
       ELSE /\ R1_next' = Min(R1_next + 1, Len(R1_source))
            /\ R2_next' = Min(R2_next + 1, Len(R2_source))
            /\ pairs' = Append(pairs,
                   <<IF R1_next < Len(R1_source) THEN plain_read(R1_source[R1_next + 1])
                     ELSE [name |-> <<>>, seq |-> <<>>, qual |-> <<>>],
                     IF R2_next < Len(R2_source) THEN plain_read(R2_source[R2_next + 1])
                     ELSE [name |-> <<>>, seq |-> <<>>, qual |-> <<>>]>>)
            /\ UNCHANGED pairs_pc
    /\ UNCHANGED <<R1_source, R2_source, not_pairs_vars>>

\* The consumer asks izip(R1_reads, R2_reads) for the next pair: izip asks
\* R1_reads first and stops if it has ended, then R2_reads and stops if that
\* has ended (the R1 Read it holds is dropped).
NextPair ==
    /\ pairs_pc = "ready"
    /\ IF R1_next >= Len(R1_source)
       THEN /\ pairs_pc' = "exhausted"
            /\ UNCHANGED <<R1_next, R2_next, pairs>>
       ELSE IF R2_next >= Len(R2_source)
       THEN /\ pairs_pc' = "exhausted"
            /\ R1_next' = R1_next + 1
            /\ UNCHANGED <<R2_next, pairs>>
       ELSE /\ R1_next' = R1_next + 1
            /\ R2_next' = R2_next + 1
            /\ pairs' = Append(pairs, <<plain_read(R1_source[R1_next + 1]),
                                        plain_read(R2_source[R2_next + 1])>>)
            /\ UNCHANGED pairs_pc
    /\ UNCHANGED <<R1_source, R2_source, not_pairs_vars>>

NextPairs == CallReadPairs \/ NextPair

SpecPairs == InitPairs /\ [][NextPairs]_vars

\* key=lambda r: get_pair_name(r.name)
pair_key(r) == get_pair_name(r.name)

\* utilities.group_by(reads, key): the lists of consecutive reads with equal
\* keys, from the i-th read on; acc holds the groups made so far.
RECURSIVE group_from(_, _, _)
group_from(reads_, i, acc) ==
    IF i > Len(reads_) THEN acc
    ELSE IF acc # <<>> /\ pair_key(acc[Len(acc)][1]) = pair_key(reads_[i])
    THEN group_from(reads_, i + 1, [acc EXCEPT ![Len(acc)] = Append(@, reads_[i])])
    ELSE group_from(reads_, i + 1, Append(acc, <<reads_[i]>>))

group_by(reads_) == group_from(reads_, 1, <<>>)

\* (g[0], g[1]): right only for groups of two.
first_and_second(g) == <<g[1], g[Min(2, Len(g))]>>

\* (g[0], g[-1])
first_and_last(g) == <<g[1], g[Len(g)]>>

\* interleaved_reads = reads(lines), as the sequence it yields
interleaved_reads == [i \in 1..Len(lines) |-> plain_read(lines[i])]

grouped == group_by(interleaved_reads)

InitInterleaved ==
    /\ IdleEncoding
    /\ IdleScatter
    /\ IdleNames
    /\ IdleReads
    /\ IdlePairs
    /\ IdleStats
    /\ lines \in UNION {[1..n -> {LineGroup(name, <<59, 74>>) : name \in InterleavedNames}] :
                           n \in 0..MaxInterleaved}
    /\ interleaved_pc = "start"
    /\ groups_taken = 0
    /\ interleaved_pairs = <<>>

\* read_pairs_interleaved(lines): builds the generators, reads nothing.
CallReadPairsInterleaved ==
    /\ interleaved_pc = "start"
    /\ interleaved_pc' = "ready"
    /\ UNCHANGED <<lines, groups_taken, interleaved_pairs, not_interleaved_vars>>

\* The consumer asks ((g[0], g[-1]) for _, g in grouped) for the next pair.
NextInterleavedPair ==
    /\ interleaved_pc = "ready"
    /\ IF groups_taken >= Len(grouped)
       THEN /\ interleaved_pc' = "exhausted"
            /\ UNCHANGED <<groups_taken, interleaved_pairs>>
       ELSE /\ groups_taken' = groups_taken + 1
            /\ interleaved_pairs' =
                   Append(interleaved_pairs, first_and_last(grouped[groups_taken + 1]))
            /\ UNCHANGED interleaved_pc
    /\ UNCHANGED <<lines, not_interleaved_vars>>

NextInterleaved == CallReadPairsInterleaved \/ NextInterleavedPair

SpecInterleaved == InitInterleaved /\ [][NextInterleaved]_vars

-----------------------------------------------------------------------------
(* Claims about pairing                                                    *)

\* C8: read_pairs yields the i-th R1 read with the i-th R2 read, never more
\* than min(n1, n2) pairs, and ends (no error) after exactly min(n1, n2).
C8_PairsTruncateToShorter ==
    pairs_pc \in {"start", "ready", "exhausted"} =>
        /\ Len(pairs) <= Min(Len(R1_source), Len(R2_source))
        /\ \A i \in 1..Len(pairs) :
               pairs[i] = <<plain_read(R1_source[i]), plain_read(R2_source[i])>>
        /\ pairs_pc = "exhausted" => Len(pairs) = Min(Len(R1_source), Len(R2_source))

\* read_pairs over sources of different lengths has ended, pairs delivered.
C8_Witness ==
    /\ pairs_pc = "exhausted"
    /\ Len(R1_source) > Len(R2_source)
    /\ Len(pairs) = 2

\* Where the maximal runs of equal pair names start in the read stream.
RunStarts ==
    {i \in 1..Len(lines) :
        i = 1 \/ pair_key(plain_read(lines[i])) # pair_key(plain_read(lines[i - 1]))}
\* Where the run that starts at i ends.
RunEnd(i) ==
    IF \E j \in RunStarts : j > i
    THEN (CHOOSE j \in RunStarts : j > i /\ \A h \in RunStarts : h > i => j <= h) - 1
    ELSE Len(lines)
\* The start of the k-th run.
RunStart(k) == CHOOSE i \in RunStarts : Cardinality({j \in RunStarts : j <= i}) = k

\* C9: the k-th pair yielded is (first read, last read) of the k-th maximal
\* run of consecutive reads with the same get_pair_name key, whatever the
\* size of the run; when the generator ends every run has given one pair.
C9_OnePairPerRun ==
    interleaved_pc \in {"start", "ready", "exhausted"} =>
        /\ Len(interleaved_pairs) <= Cardinality(RunStarts)
        /\ \A k \in 1..Len(interleaved_pairs) :
               interleaved_pairs[k] = <<plain_read(lines[RunStart(k)]),
                                        plain_read(lines[RunEnd(RunStart(k))])>>
        /\ interleaved_pc = "exhausted" => Len(interleaved_pairs) = Cardinality(RunStarts)

\* A stream with a run of three reads, a run of one and a run of two (in
\* some order) has been paired to the end.
C9_Witness ==
    /\ interleaved_pc = "exhausted"
    /\ Len(interleaved_pairs) >= 2
    /\ \E i \in RunStarts : RunEnd(i) = i + 2
    /\ \E i \in RunStarts : RunEnd(i) = i

-----------------------------------------------------------------------------
(* Quality and complexity statistics                                       *)

Quals == 0..MAX_EXPECTED_QUAL
\* Array positions are 1-based here: position p of the model is index p - 1.
Positions(max_read_length) == 1..max_read_length
\* The byte columns of c_array that the sequences below can touch; 'R' is a
\* byte outside base_order.
SeqBytes == {"A", "C", "G", "T", "N", "R"}
\* utilities.base_order
base_order == <<"A", "C", "G", "T", "N">>

\* np.zeros((max_read_length, MAX_EXPECTED_QUAL + 1), int)
zeros_q(max_read_length) == [p \in Positions(max_read_length) |-> [q \in Quals |-> 0]]
\* np.zeros((max_read_length, 256), int)
zeros_c(max_read_length) == [p \in Positions(max_read_length) |-> [b \in SeqBytes |-> 0]]
\* np.zeros(MAX_EXPECTED_QUAL + 1, int)
zeros_distribution == [q \in Quals |-> 0]
\* np.zeros((MAX_EXPECTED_QUAL + 1, MAX_EXPECTED_QUAL + 1), int)
zeros_joint == [q1 \in Quals |-> [q2 \in Quals |-> 0]]

\* fastq_cython.process_read from position i on: counts quality and base at
\* every position and adds the decoded qualities up.
RECURSIVE process_from(_, _, _, _, _, _)
process_from(seq, qual, q_array, c_array, i, total) ==
    IF i > Len(seq)
    THEN [q_array |-> q_array, c_array |-> c_array,
          average_q |-> [total |-> total, count |-> Len(seq)]]
    ELSE process_from(seq, qual,
             [q_array EXCEPT ![i][qual[i] - SANGER_OFFSET] = @ + 1],
             [c_array EXCEPT ![i][seq[i]] = @ + 1],
             i + 1, total + (qual[i] - SANGER_OFFSET))

\* The mean quality is returned as the fraction total / count.
process_read(seq, qual, q_array, c_array) ==
    process_from(seq, qual, q_array, c_array, 1, 0)

\* round(average_q): to the nearest integer, halves away from zero
round_of(average_q) == (2 * average_q.total + average_q.count) \div (2 * average_q.count)

\* int(average_q): the fraction is cut off (qualities are not negative)
int_of(average_q) == average_q.total \div average_q.count

\* np.vstack([c_array.T[ord(b)] for b in base_order]).T
base_columns(c_array) ==
    [p \in DOMAIN c_array |-> [k \in 1..Len(base_order) |-> c_array[p][base_order[k]]]]

\* The body of quality_and_complexity's loop, process_read having returned.
count_read(processed, average_q_distribution) ==
    [q_array |-> processed.q_array, c_array |-> processed.c_array,
     average_q_distribution |->
         [average_q_distribution EXCEPT ![int_of(processed.average_q)] = @ + 1]]

\* The loop of quality_and_complexity from the i-th read on.
RECURSIVE count_reads_from(_, _, _)
count_reads_from(reads_, i, arrays) ==
    IF i > Len(reads_) THEN arrays
    ELSE count_reads_from(reads_, i + 1,
             count_read(process_read(reads_[i].seq, reads_[i].qual,
                                     arrays.q_array, arrays.c_array),
                        arrays.average_q_distribution))

return_arrays(arrays) ==
    [q_array |-> arrays.q_array, c_array |-> base_columns(arrays.c_array),
     average_q_distribution |-> arrays.average_q_distribution]

quality_and_complexity(reads_, max_read_length) ==
    return_arrays(count_reads_from(reads_, 1,
        [q_array |-> zeros_q(max_read_length), c_array |-> zeros_c(max_read_length),
         average_q_distribution |-> zeros_distribution]))

\* Reads of one or two bases; "AC" with qualities "!I" (0 and 40) is one.
StatReads ==
    {[name |-> <<"r">>, seq |-> <<"A", "C">>, qual |-> <<33, 73>>],
     [name |-> <<"r">>, seq |-> <<"G", "T">>, qual |-> <<33, 74>>],
     [name |-> <<"r">>, seq |-> <<"R">>, qual |-> <<75>>],
     [name |-> <<"r">>, seq |-> <<"T", "N">>, qual |-> <<73, 74>>]}
StatMates ==
    {[name |-> <<"r">>, seq |-> <<"G", "T">>, qual |-> <<33, 74>>],
     [name |-> <<"r">>, seq |-> <<"R">>, qual |-> <<75>>]}

InitQuality ==
    /\ IdleEncoding
    /\ IdleScatter
    /\ IdleNames
    /\ IdleReads
    /\ IdlePairs
    /\ IdleInterleaved
    /\ qc_reads \in UNION {[1..n -> StatReads] : n \in 0..MaxStatReads}
    /\ qc_pc = "start"
    /\ qc_result = <<>>
    /\ qcp_read_pairs = <<>>
    /\ qcp_pc = "idle"
    /\ qcp_taken = 0
    /\ qcp_arrays = <<>>
    /\ qcp_yielded = <<>>
    /\ results = <<>>

\* quality_and_complexity(reads, max_read_length)
QualityAndComplexity ==
    /\ qc_pc = "start"
    /\ qc_pc' = "returned"
    /\ qc_result' = quality_and_complexity(qc_reads, MaxReadLength)
    /\ UNCHANGED <<qc_reads, not_qc_vars>>

NextQuality == QualityAndComplexity

SpecQuality == InitQuality /\ [][NextQuality]_vars

-----------------------------------------------------------------------------
(* quality_and_complexity_paired: a generator                              *)

ResultKeys == {"R1_qs", "R1_cs", "R2_qs", "R2_cs", "joint_average_qs",
               "R1_average_qs", "R2_average_qs"}

\* The mappings a caller hands in: an empty one, or one with a key of its own.
CallerResults == {<<>>, [k \in {"sample"} |-> <<"s">>]}

RECURSIVE sum_to(_, _)
sum_to(f, n) == IF n < 0 THEN 0 ELSE f[n] + sum_to(f, n - 1)

\* joint.sum(axis=0): sums over the first index, one per column
sum_axis0(joint) ==
    [q2 \in Quals |-> sum_to([q1 \in Quals |-> joint[q1][q2]], MAX_EXPECTED_QUAL)]

\* joint.sum(axis=1): sums over the second index, one per row
sum_axis1(joint) == [q1 \in Quals |-> sum_to(joint[q1], MAX_EXPECTED_QUAL)]

\* The body of the loop, both process_read calls having returned.
count_pair(R1_processed, R2_processed, joint) ==
    [R1_q_array |-> R1_processed.q_array, R1_c_array |-> R1_processed.c_array,
     R2_q_array |-> R2_processed.q_array, R2_c_array |-> R2_processed.c_array,
     joint_average_q_distribution |->
         [joint EXCEPT ![int_of(R1_processed.average_q)][int_of(R2_processed.average_q)]
                           = @ + 1]]

\* The dict passed to results.update
new_results(arrays) ==
    [R1_qs |-> arrays.R1_q_array,
     R1_cs |-> base_columns(arrays.R1_c_array),
     R2_qs |-> arrays.R2_q_array,
     R2_cs |-> base_columns(arrays.R2_c_array),
     joint_average_qs |-> arrays.joint_average_q_distribution,
     R1_average_qs |-> sum_axis1(arrays.joint_average_q_distribution),
     R2_average_qs |-> sum_axis0(arrays.joint_average_q_distribution)]

\* d.update(new)
update(d, new) ==
    [k \in (DOMAIN d) \cup (DOMAIN new) |-> IF k \in DOMAIN new THEN new[k] ELSE d[k]]

InitPaired ==
    /\ IdleEncoding
    /\ IdleScatter
    /\ IdleNames
    /\ IdleReads
    /\ IdlePairs
    /\ IdleInterleaved
    /\ qc_reads = <<>>
    /\ qc_pc = "idle"
    /\ qc_result = <<>>
    /\ qcp_read_pairs \in UNION {[1..n -> StatReads \X StatMates] : n \in 0..MaxStatPairs}
    /\ qcp_pc = "start"
    /\ qcp_taken = 0
    /\ qcp_arrays = [R1_q_array |-> zeros_q(MaxReadLength),
                     R1_c_array |-> zeros_c(MaxReadLength),
                     R2_q_array |-> zeros_q(MaxReadLength),
                     R2_c_array |-> zeros_c(MaxReadLength),
                     joint_average_q_distribution |-> zeros_joint]
    /\ qcp_yielded = <<>>
    /\ results \in CallerResults

\* The loop body with results.update moved into it: the mapping is filled in
\* as the pairs go by.
YieldPairPublishing ==
    /\ qcp_pc \in {"start", "suspended"}
    /\ qcp_taken < Len(qcp_read_pairs)
    /\ \E arrays \in {count_pair(
              process_read(qcp_read_pairs[qcp_taken + 1][1].seq,
                           qcp_read_pairs[qcp_taken + 1][1].qual,
                           qcp_arrays.R1_q_array, qcp_arrays.R1_c_array),
              process_read(qcp_read_pairs[qcp_taken + 1][2].seq,
                           qcp_read_pairs[qcp_taken + 1][2].qual,
                           qcp_arrays.R2_q_array, qcp_arrays.R2_c_array),
              qcp_arrays.joint_average_q_distribution)} :
          /\ qcp_arrays' = arrays
          /\ results' = update(results, new_results(arrays))
    /\ qcp_taken' = qcp_taken + 1
    /\ qcp_yielded' = Append(qcp_yielded, qcp_read_pairs[qcp_taken + 1])
    /\ qcp_pc' = "suspended"
    /\ UNCHANGED <<qcp_read_pairs, not_qcp_vars>>

\* The consumer asks for the next pair and read_pairs has one: the generator
\* counts it and stops at its yield.
YieldPair ==
    /\ qcp_pc \in {"start", "suspended"}
    /\ qcp_taken < Len(qcp_read_pairs)
    /\ qcp_arrays' = count_pair(
              process_read(qcp_read_pairs[qcp_taken + 1][1].seq,
                           qcp_read_pairs[qcp_taken + 1][1].qual,
                           qcp_arrays.R1_q_array, qcp_arrays.R1_c_array),
              process_read(qcp_read_pairs[qcp_taken + 1][2].seq,
                           qcp_read_pairs[qcp_taken + 1][2].qual,
                           qcp_arrays.R2_q_array, qcp_arrays.R2_c_array),
              qcp_arrays.joint_average_q_distribution)
    /\ qcp_taken' = qcp_taken + 1
    /\ qcp_yielded' = Append(qcp_yielded, qcp_read_pairs[qcp_taken + 1])
    /\ qcp_pc' = "suspended"
    /\ UNCHANGED <<qcp_read_pairs, results, not_qcp_vars>>

\* The consumer asks for the next pair and read_pairs has ended: the
\* generator runs the code after its loop and ends.
FinishPaired ==
    /\ qcp_pc \in {"start", "suspended"}
    /\ qcp_taken = Len(qcp_read_pairs)
    /\ results' = update(results, new_results(qcp_arrays))
    /\ qcp_pc' = "exhausted"
    /\ UNCHANGED <<qcp_read_pairs, qcp_taken, qcp_arrays, qcp_yielded, not_qcp_vars>>

NextPaired == YieldPair \/ FinishPaired

SpecPaired == InitPaired /\ [][NextPaired]_vars

-----------------------------------------------------------------------------
(* Claims about the statistics                                             *)

\* C1: until the generator is exhausted the caller's results mapping is as
\* the caller made it, however many pairs were pulled; once it is exhausted
\* the mapping holds the seven results (and what it held before), with
\* R1_average_qs the row sums and R2_average_qs the column sums of
\* joint_average_qs.
C1_ResultsOnlyOnExhaustion ==
    /\ qcp_pc \in {"start", "suspended"} => results \in CallerResults
    /\ qcp_pc = "exhausted" =>
        /\ ResultKeys \subseteq DOMAIN results
        /\ \E r \in CallerResults :
              /\ DOMAIN results = (DOMAIN r) \cup ResultKeys
              /\ \A k \in DOMAIN r : results[k] = r[k]
        /\ \A q \in Quals :
              /\ results["R1_average_qs"][q]
                     = sum_to(results["joint_average_qs"][q], MAX_EXPECTED_QUAL)
              /\ results["R2_average_qs"][q]
                     = sum_to([p \in Quals |-> results["joint_average_qs"][p][q]],
                              MAX_EXPECTED_QUAL)
        /\ sum_to(results["R1_average_qs"], MAX_EXPECTED_QUAL) = Len(qcp_read_pairs)

\* The generator is exhausted after two pairs whose joint distribution is not
\* symmetric.
C1_Witness ==
    /\ qcp_pc = "exhausted"
    /\ Len(qcp_yielded) = 2
    /\ "sample" \in DOMAIN results
    /\ results["R1_average_qs"] # results["R2_average_qs"]

RECURSIVE SeqSum(_)
SeqSum(q) == IF q = <<>> THEN 0 ELSE Head(q) + SeqSum(Tail(q))

\* The Sanger-decoded qualities of a read add up to this.
QualTotal(read) == SeqSum([i \in 1..Len(read.qual) |-> read.qual[i] - 33])

\* The mean quality rounded to the nearest integer (halves upwards).
RoundedMean(read) ==
    CHOOSE m \in Quals :
        /\ 2 * m * Len(read.qual) - Len(read.qual) <= 2 * QualTotal(read)
        /\ 2 * QualTotal(read) < 2 * m * Len(read.qual) + Len(read.qual)

\* The mean quality with its fraction cut off.
TruncatedMean(read) ==
    CHOOSE m \in Quals :
        /\ m * Len(read.qual) <= QualTotal(read)
        /\ QualTotal(read) < (m + 1) * Len(read.qual)

\* The distribution counts every read once, in the bucket Bucket gives it.
C10_DistributionIs(Bucket(_)) ==
    qc_pc = "returned" =>
        /\ \A b \in Quals :
              qc_result.average_q_distribution[b]
                  = Cardinality({i \in 1..Len(qc_reads) : Bucket(qc_reads[i]) = b})
        /\ sum_to(qc_result.average_q_distribution, MAX_EXPECTED_QUAL) = Len(qc_reads)
        /\ (Len(qc_reads) = 1 /\ qc_reads[1].qual = <<33, 73>>) =>
              qc_result.average_q_distribution[20] = 1

\* C10 (as claimed): every read increments the bucket at round(mean_quality).
C10_BucketIsRoundedMean == C10_DistributionIs(RoundedMean)

\* C10 (as amended): every read increments the bucket at int(mean_quality),
\* the mean with its fraction cut off; one read with qualities 0 and 40 puts
\* 1 in bucket 20 and the distribution sums to the number of reads.
C10_BucketIsTruncatedMean == C10_DistributionIs(TruncatedMean)

\* Reads whose mean quality is not a whole number have been counted.
C10_Witness ==
    /\ qc_pc = "returned"
    /\ Len(qc_reads) >= 2
    /\ \E i \in 1..Len(qc_reads) : TruncatedMean(qc_reads[i]) # RoundedMean(qc_reads[i])
    /\ \E i \in 1..Len(qc_reads) : qc_reads[i].qual = <<33, 73>>

-----------------------------------------------------------------------------
(* scatter(df, log_scale): the ranges of the two axes                      *)
(*                                                                         *)
(* The data are integers; a range end is held in thousandths, so that the  *)
(* factors 0.05, 0.5, 0.1 and 0.001 are exact.                             *)

Thousandths == 1000

\* The largest / smallest value of column c alone.
column_max(df_, c) == CHOOSE v \in {df_[c][r] : r \in DOMAIN df_[c]} :
                         \A r \in DOMAIN df_[c] : df_[c][r] <= v
column_min(df_, c) == CHOOSE v \in {df_[c][r] : r \in DOMAIN df_[c]} :
                         \A r \in DOMAIN df_[c] : v <= df_[c][r]

\* The largest value of the first numerical column only.
x_max(df_) == column_max(df_, 1)

\* df.max(numeric_only=True).max()
overall_max(df_) ==
    CHOOSE v \in {column_max(df_, c) : c \in DOMAIN df_} :
        \A c \in DOMAIN df_ : column_max(df_, c) <= v

\* df.min(numeric_only=True).min()
overall_min(df_) ==
    CHOOSE v \in {column_min(df_, c) : c \in DOMAIN df_} :
        \A c \in DOMAIN df_ : v <= column_min(df_, c)

\* The two ranges, given the overall extremes.
ranges(lo, hi, log_scale_) ==
    LET extent == hi - lo
        overhang == 50 * extent            \* extent * 0.05
        max_overhang == 500 * extent       \* extent * 0.5
    IN  IF log_scale_
        THEN [initial |-> <<100 * lo, 10 * Thousandths * hi>>,
              bounds |-> <<lo, Thousandths * Thousandths * hi>>]
        ELSE [initial |-> <<Thousandths * lo - overhang, Thousandths * hi + overhang>>,
              bounds |-> <<Thousandths * lo - max_overhang,
                           Thousandths * hi + max_overhang>>]

\* The tables scatter is given: one or two numerical columns of whole numbers.
CellValues == {-10, 0, 5, 10, 20}
Columns == UNION {[1..n -> CellValues] : n \in 1..MaxRows}
Frames == {f \in UNION {[1..n -> Columns] : n \in 1..2} :
              \A c \in DOMAIN f : Len(f[c]) = Len(f[1])}

InitScatter ==
    /\ IdleNames
    /\ IdleReads
    /\ IdlePairs
    /\ IdleInterleaved
    /\ IdleStats
    /\ IdleEncoding
    /\ df \in Frames
    /\ log_scale \in BOOLEAN
    /\ scatter_pc = "start"
    /\ initial = <<>>
    /\ bounds = <<>>

\* x_name, y_name = numerical_cols[:2] with fewer than two numerical columns
ScatterTooFewColumns ==
    /\ scatter_pc = "start"
    /\ Len(df) < 2
    /\ scatter_pc' = "raised"
    /\ UNCHANGED <<df, log_scale, initial, bounds, not_scatter_vars>>

\* scatter(df, log_scale=log_scale), up to the two Range1d it sets
Scatter ==
    /\ scatter_pc = "start"
    /\ Len(df) >= 2
    /\ \E r \in {ranges(overall_min(df), overall_max(df), log_scale)} :
          /\ initial' = r.initial
          /\ bounds' = r.bounds
    /\ scatter_pc' = "drawn"
    /\ UNCHANGED <<df, log_scale, not_scatter_vars>>

NextScatter == ScatterTooFewColumns \/ Scatter

SpecScatter == InitScatter /\ [][NextScatter]_vars

-----------------------------------------------------------------------------
(* Claims about the scatter ranges, checked under SpecScatter              *)

\* Every numerical value of the table.
DataValues == {df[c][r] : c \in DOMAIN df, r \in DOMAIN df[1]}
DataMin == CHOOSE v \in DataValues : \A w \in DataValues : v <= w
DataMax == CHOOSE v \in DataValues : \A w \in DataValues : w <= v

\* Column A (the first numerical column) ranges from 0 to 10.
ColumnAIsZeroToTen ==
    /\ \E r \in DOMAIN df[1] : df[1][r] = 0
    /\ \E r \in DOMAIN df[1] : df[1][r] = 10
    /\ \A r \in DOMAIN df[1] : df[1][r] \in 0..10

\* No value of column B (the second) lies outside column A's range.
ColumnBWithinA == \A r \in DOMAIN df[2] : df[2][r] \in 0..10

\* initial = (min - 0.05*extent, max + 0.05*extent) and
\* bounds = (min - 0.5*extent, max + 0.5*extent), over all numerical data,
\* written without the intermediate extent: 20*(min - 0.05*(max - min)) is
\* 21*min - max.
LinearRangesFromOverallExtremes ==
    /\ 20 * initial[1] = Thousandths * (21 * DataMin - DataMax)
    /\ 20 * initial[2] = Thousandths * (21 * DataMax - DataMin)
    /\ 2 * bounds[1] = Thousandths * (3 * DataMin - DataMax)
    /\ 2 * bounds[2] = Thousandths * (3 * DataMax - DataMin)

\* initial = (-0.5, 10.5) and bounds = (-5, 15)
ExampleRanges ==
    /\ initial = <<-500, 10500>>
    /\ bounds = <<-5000, 15000>>

\* C11 (as stated): in linear mode both axes get the initial view
\* (min - 0.05*extent, max + 0.05*extent) and the outer bound
\* (min - 0.5*extent, max + 0.5*extent); and whenever column A ranges from 0
\* to 10, whatever column B holds, the view is (-0.5, 10.5) and the bound
\* (-5, 15).
C11_ExampleWhateverBHolds ==
    (scatter_pc = "drawn" /\ ~log_scale) =>
        /\ LinearRangesFromOverallExtremes
        /\ ColumnAIsZeroToTen => ExampleRanges

\* C11 (as amended): in linear mode both axes get the initial view
\* (min - 0.05*extent, max + 0.05*extent) and the outer bound
\* (min - 0.5*extent, max + 0.5*extent), min and max taken over all numerical
\* columns together; when column A ranges from 0 to 10 and column B stays
\* within that range, the view is (-0.5, 10.5) and the bound (-5, 15).
C11_ExampleWhenBWithinA ==
    (scatter_pc = "drawn" /\ ~log_scale) =>
        /\ LinearRangesFromOverallExtremes
        /\ (ColumnAIsZeroToTen /\ ColumnBWithinA) => ExampleRanges

\* A linear plot of a table whose column A ranges from 0 to 10 and whose
\* column B, not constant, stays within it.
C11_Witness ==
    /\ scatter_pc = "drawn"
    /\ ~log_scale
    /\ ColumnAIsZeroToTen
    /\ ColumnBWithinA
    /\ \E r \in DOMAIN df[2] : df[2][r] = 5
    /\ ExampleRanges

====
